---- MODULE Spec2Model ----
(***************************************************************************)
(* Model of src/lib.py: the Jira -> Google Slides roadmap generator.       *)
(*                                                                         *)
(* One run of generate_roadmap_deck is a state machine:                    *)
(*   query -> normalize (one step per raw issue) -> extract categories ->  *)
(*   gen_slides (one step per category) -> first batchUpdate ->            *)
(*   populate (per slide: reset the column counters, one step per issue)   *)
(*   -> second batchUpdate -> done.                                        *)
(* Strings that the code slices (category names, the prefix) are sequences *)
(* of characters.  uuid.uuid4() is a fresh identifier (a counter).         *)
(* Numbers produced by Python's true division are kept as exact fractions  *)
(* [num, den] with den = number of columns.                                *)
(***************************************************************************)
EXTENDS Integers, Sequences, FiniteSets, TLC

VARIABLES
    pc,                    \* position of the run inside generate_roadmap_deck
    error,                 \* the exception that ended the run ("none" if none)
    raw_issues,            \* what jira_service.search_issues returned
    roadmap_slide_config,  \* the caller's configuration dict
    norm_i,                \* loop index of get_roadmap_issues
    roadmap_issues,        \* list of JiraRoadmapIssue
    product_categories,    \* result of get_unique_product_groups
    gen_i,                 \* loop index of generate_roadmap_slides
    slide_reqs,            \* request list of generate_roadmap_slides
    slides,                \* list of RoadmapSlide
    pop_s,                 \* slide loop index of populate_roadmap_with_issues
    pop_j,                 \* issue loop index (0 = slide not started)
    roadmap_shapes,        \* request list of populate_roadmap_with_issues
    next_id,               \* source of fresh uuids
    execute_calls,         \* history of batchUpdate calls: [body, ok]
    presentation,          \* operations applied to the remote presentation
    summary                \* value returned by generate_roadmap_deck (<<>> = None)

vars == <<pc, error, raw_issues, roadmap_slide_config, norm_i, roadmap_issues,
          product_categories, gen_i, slide_reqs, slides, pop_s, pop_j,
          roadmap_shapes, next_id, execute_calls, presentation, summary>>

----------------------------------------------------------------------------
(* Bounds and inputs *)

MaxIssues == 3

PA == <<"P", "-", "A">>
PB == <<"P", "-", "B">>
PX == <<"X">>
Prefix == <<"P", "-">>

\* Raw tracker records: component names, labels, workflow state name and the
\* configured beta attribute ("<missing>": the fields object has no such
\* attribute; "<none>": attribute is None; otherwise an option object with
\* that .value).
RawPool ==
    { [components |-> <<PA>>,     labels |-> <<PB, PX>>, status |-> "Q1",      beta_attr |-> "<none>"],
      [components |-> <<PA, PB>>, labels |-> <<PA, PA>>, status |-> "Q2",      beta_attr |-> "Beta"],
      [components |-> <<PB, PX>>, labels |-> <<>>,       status |-> "Q1",      beta_attr |-> "beta"],
      [components |-> <<>>,       labels |-> <<PA>>,     status |-> "Backlog", beta_attr |-> "<none>"],
      [components |-> <<PA>>,     labels |-> <<PX>>,     status |-> "Q2",      beta_attr |-> "<missing>"] }

RECURSIVE SeqsUpTo(_, _)
SeqsUpTo(S, n) ==
    IF n = 0 THEN {<<>>}
    ELSE LET shorter == SeqsUpTo(S, n - 1)
         IN  shorter \cup {Append(s, x) : s \in {t \in shorter : Len(t) = n - 1}, x \in S}

Modes == {"components", "labels", "tags"}

LayoutConfigs ==
    { [left_header    |-> [locx |-> 10, width |-> 100, locy |-> 50, height |-> 40],
       timeline_arrow |-> [width |-> 460],
       roadmap_box    |-> [height |-> 30, x_padding |-> 20, y_padding |-> 5],
       columns        |-> << [label |-> "Q1", jira_statuses |-> {"Q1"}],
                             [label |-> "Q2", jira_statuses |-> {"Q2"}] >>],
      [left_header    |-> [locx |-> 0, width |-> 90, locy |-> 20, height |-> 60],
       timeline_arrow |-> [width |-> 640],
       roadmap_box    |-> [height |-> 25, x_padding |-> 10, y_padding |-> 0],
       columns        |-> << [label |-> "Now",   jira_statuses |-> {"Q1", "Q2"}],
                             [label |-> "Next",  jira_statuses |-> {"Q2"}],
                             [label |-> "Later", jira_statuses |-> {"Q3"}] >>],
      [left_header    |-> [locx |-> 30, width |-> 120, locy |-> 40, height |-> 50],
       timeline_arrow |-> [width |-> 800],
       roadmap_box    |-> [height |-> 45, x_padding |-> 20, y_padding |-> 10],
       columns        |-> << [label |-> "Q1", jira_statuses |-> {"Q1"}],
                             [label |-> "Q2", jira_statuses |-> {"Q2"}],
                             [label |-> "Q3", jira_statuses |-> {"Q3"}],
                             [label |-> "Q4", jira_statuses |-> {"Q4"}] >>] }

WithJira(layout, mode, include_beta) ==
    [k \in DOMAIN layout \cup {"jira_roadmap_issues"} |->
        IF k = "jira_roadmap_issues"
        THEN [product_category_mode   |-> mode,
              product_category_prefix |-> Prefix,
              include_beta            |-> include_beta]
        ELSE layout[k]]

----------------------------------------------------------------------------
(* Helpers *)

SeqToSet(s) == {s[i] : i \in DOMAIN s}

RECURSIVE Flatten(_)
Flatten(ss) == IF ss = <<>> THEN <<>> ELSE Head(ss) \o Flatten(Tail(ss))

\* all orderings of a finite set, as sequences without repetition
Orderings(S) ==
    {f \in [1..Cardinality(S) -> S] : \A i, j \in 1..Cardinality(S) : f[i] = f[j] => i = j}

NoId == 0

\* One drawing operation.  kind is the request key; role tells which visual
\* artifact the builder emitted it for.
Op(kind, role, objectId, pageObjectId, placeholderId, link, x, y, w) ==
    [kind |-> kind, role |-> role, objectId |-> objectId,
     pageObjectId |-> pageObjectId, placeholderId |-> placeholderId,
     text |-> <<>>, link |-> link, x |-> x, y |-> y, w |-> w]

NoGeom == [num |-> 0, den |-> 0]
Plain(kind, role, objectId) == Op(kind, role, objectId, NoId, NoId, 0, NoGeom, 0, NoGeom)
InsertText(role, objectId, text) == [Plain("insertText", role, objectId) EXCEPT !.text = text]
Create(kind, role, objectId, page) == Op(kind, role, objectId, page, NoId, 0, NoGeom, 0, NoGeom)

----------------------------------------------------------------------------
(* Issue normalizer: get_roadmap_issues *)

\* variant: the else branch that raises is missing
ValidMode_Any(mode) == TRUE

ValidMode(mode) == mode \in {"components", "labels"}

IssueCategories(mode, raw) ==
    IF mode = "components" THEN raw.components ELSE raw.labels

StartsWith(s, p) == Len(s) >= Len(p) /\ SubSeq(s, 1, Len(p)) = p

\* variant: the category is stored with its prefix
StripPrefix_Kept(s, p) == s

StripPrefix(s, p) == SubSeq(s, Len(p) + 1, Len(s))

RECURSIVE FilteredCategories(_, _)
FilteredCategories(cats, prefix) ==
    IF cats = <<>> THEN <<>>
    ELSE (IF StartsWith(Head(cats), prefix)
          THEN <<StripPrefix(Head(cats), prefix)>> ELSE <<>>)
         \o FilteredCategories(Tail(cats), prefix)

\* getattr(issue.fields, beta_attribute_name) without a default
HasBetaAttr(raw) == raw.beta_attr # "<missing>"

\* beta_attr and beta_attr.value == "Beta"
IsBetaValue(raw) == raw.beta_attr # "<none>" /\ raw.beta_attr = "Beta"

JiraRoadmapIssue(id, raw, cats, beta) ==
    [jira_id |-> id, product_categories |-> cats, jira_quarter |-> raw.status,
     jira_link |-> id, beta |-> beta]

----------------------------------------------------------------------------
(* Geometry / request builders.  nid is the next unused identifier; each   *)
(* builder returns its request list, the id it reports and the next unused *)
(* identifier.                                                             *)

gen_header_slide_req(title, nid) ==
    LET titleId == nid
        slideId == nid + 1
    IN  [request_body |->
            << Op("createSlide", "header_slide", slideId, NoId, titleId, 0, NoGeom, 0, NoGeom),
               InsertText("header_title", titleId, title) >>,
         id |-> slideId, next |-> nid + 2]

RECURSIVE quarter_marker_reqs(_, _, _, _)
quarter_marker_reqs(col_num, ncols, slide_id, nid) ==
    IF col_num >= ncols THEN [request_body |-> <<>>, next |-> nid]
    ELSE LET marker  == nid
             textbox == nid + 1
             rest    == quarter_marker_reqs(col_num + 1, ncols, slide_id, nid + 2)
         IN  [request_body |->
                << Create("createShape", "quarter_marker", marker, slide_id),
                   Plain("updateShapeProperties", "quarter_marker", marker),
                   Create("createShape", "quarter_textbox", textbox, slide_id),
                   Plain("updateShapeProperties", "quarter_textbox", textbox),
                   Plain("insertText", "quarter_textbox", textbox),
                   Plain("updateTextStyle", "quarter_textbox", textbox) >>
                \o rest.request_body,
              next |-> rest.next]

gen_roadmap_slide_req(title, cfg, nid) ==
    LET title_id    == nid
        slide_id    == nid + 1
        left_header == nid + 2
        left_main   == nid + 3
        arrow       == nid + 4
        slide_req   == << Op("createSlide", "roadmap_slide", slide_id, NoId, title_id, 0, NoGeom, 0, NoGeom) >>
        title_req   == << InsertText("roadmap_title", title_id, title) >>
        left_main_req ==
            << Create("createShape", "left_main", left_main, slide_id),
               Plain("updateShapeProperties", "left_main", left_main),
               Plain("insertText", "left_main", left_main),
               Plain("updateTextStyle", "left_main", left_main),
               Plain("updateParagraphStyle", "left_main", left_main) >>
        left_header_req ==
            << Create("createShape", "left_header", left_header, slide_id),
               Plain("updateShapeProperties", "left_header", left_header),
               InsertText("left_header", left_header, title),
               Plain("updateTextStyle", "left_header", left_header),
               Plain("updateParagraphStyle", "left_header", left_header) >>
        timeline_arrow_req ==
            << Create("createLine", "timeline_arrow", arrow, slide_id),
               Plain("updateLineProperties", "timeline_arrow", arrow) >>
        markers == quarter_marker_reqs(0, Len(cfg.columns), slide_id, nid + 5)
    IN  [request_body |-> slide_req \o title_req \o left_main_req \o left_header_req
                          \o timeline_arrow_req \o markers.request_body,
         id |-> slide_id, next |-> markers.next]

\* variant: the box text is inserted before the box is created
gen_roadmap_item_req_TextFirst(page_id, width, locx, locy, link, beta, nid) ==
    [request_body |->
        << Plain("insertText", "roadmap_item", nid),
           Op("createShape", "roadmap_item", nid, page_id, NoId, 0, locx, locy, width),
           Op("updateShapeProperties", "roadmap_item", nid, NoId, NoId, link, NoGeom, 0, NoGeom),
           Plain("updateTextStyle", "roadmap_item", nid),
           Plain("updateParagraphStyle", "roadmap_item", nid),
           Plain("updateTextStyle", "roadmap_item", nid) >>,
     id |-> nid, next |-> nid + 1]

\* width and locx are fractions; locy is an integer
gen_roadmap_item_req(page_id, width, locx, locy, link, beta, nid) ==
    LET element_id == nid
        box == << Op("createShape", "roadmap_item", element_id, page_id, NoId, 0, locx, locy, width),
                  Op("updateShapeProperties", "roadmap_item", element_id, NoId, NoId, link, NoGeom, 0, NoGeom),
                  Plain("insertText", "roadmap_item", element_id),
                  Plain("updateTextStyle", "roadmap_item", element_id),
                  Plain("updateParagraphStyle", "roadmap_item", element_id),
                  Plain("updateTextStyle", "roadmap_item", element_id) >>
        beta_flag == nid + 1
        \* translateX = locx + width*6/7 - 2, width = width/7 : denominators 7*den
        flag_x == [num |-> 7 * locx.num + 6 * width.num - 14 * locx.den, den |-> 7 * locx.den]
        flag_w == [num |-> width.num, den |-> 7 * width.den]
        beta_flag_req_body ==
            << Op("createShape", "beta_flag", beta_flag, page_id, NoId, 0, flag_x, locy + 2, flag_w),
               Plain("updateShapeProperties", "beta_flag", beta_flag),
               Plain("insertText", "beta_flag", beta_flag),
               Plain("updateTextStyle", "beta_flag", beta_flag),
               Plain("updateParagraphStyle", "beta_flag", beta_flag) >>
    IN  [request_body |-> IF beta THEN box \o beta_flag_req_body ELSE box,
         id |-> element_id,
         next |-> IF beta THEN nid + 2 ELSE nid + 1]

----------------------------------------------------------------------------
(* Category extractor and skeleton phase *)

RECURSIVE AllCategories(_)
AllCategories(issues) ==
    IF issues = <<>> THEN <<>>
    ELSE Head(issues).product_categories \o AllCategories(Tail(issues))

\* variant: the concatenated list is returned without deduplication
get_unique_product_groups_Dup(issues) == {AllCategories(issues)}

\* list(set(categories)): the distinct labels, in an order Python does not fix
get_unique_product_groups(issues) == Orderings(SeqToSet(AllCategories(issues)))

RoadmapSlide(category, slide_id) ==
    [title |-> category, google_slide_id |-> slide_id, product_category |-> category]

----------------------------------------------------------------------------
(* Column allocator: populate_roadmap_with_issues *)

NumColumns(cfg) == Len(cfg.columns)

\* variant: the paddings are counted as for the quarter markers (two of them)
roadmap_box_width_TwoPads(cfg) ==
    [num |-> cfg.timeline_arrow.width - cfg.roadmap_box.x_padding * 2,
     den |-> NumColumns(cfg)]

\* (arrow.width - x_padding * (len(columns) + 1)) / len(columns)
roadmap_box_width(cfg) ==
    [num |-> cfg.timeline_arrow.width - cfg.roadmap_box.x_padding * (NumColumns(cfg) + 1),
     den |-> NumColumns(cfg)]

roadmap_box_locx(cfg) == cfg.left_header.locx + cfg.left_header.width + cfg.roadmap_box.x_padding

roadmap_box_locy(cfg) == cfg.left_header.locy + cfg.left_header.height

\* roadmap_box_locx + (roadmap_box_width + x_padding) * col_num
LocX(cfg, col_num) ==
    [num |-> roadmap_box_locx(cfg) * NumColumns(cfg)
             + (roadmap_box_width(cfg).num + cfg.roadmap_box.x_padding * NumColumns(cfg)) * col_num,
     den |-> NumColumns(cfg)]

\* variant: the box height is left out of the vertical step
LocY_PaddingOnly(cfg, count) ==
    count * cfg.roadmap_box.y_padding + roadmap_box_locy(cfg)

\* col['count'] * (height + y_padding) + roadmap_box_locy
LocY(cfg, count) ==
    count * (cfg.roadmap_box.height + cfg.roadmap_box.y_padding) + roadmap_box_locy(cfg)

\* col['count'] = v on a column dict (creates the key when it is not there)
SetCount(col, v) ==
    [k \in DOMAIN col \cup {"count"} |-> IF k = "count" THEN v ELSE col[k]]

\* variant: a counter that already exists is kept (reset only on first use)
ResetCounts_Kept(cols) ==
    [c \in DOMAIN cols |-> IF "count" \in DOMAIN cols[c] THEN cols[c] ELSE SetCount(cols[c], 0)]

\* for col in columns_config: col['count'] = 0
ResetCounts(cols) == [c \in DOMAIN cols |-> SetCount(cols[c], 0)]

\* variant: the category test is dropped
SlideMatches_Any(slide, issue) == TRUE

SlideMatches(slide, issue) == slide.product_category \in SeqToSet(issue.product_categories)

ColumnAccepts(col, issue) == issue.jira_quarter \in col.jira_statuses

\* for col_num, col in enumerate(columns_config): the loop runs over every
\* column; there is no break after a match.
RECURSIVE PlaceInColumns(_, _, _, _, _, _)
PlaceInColumns(col_num, cfg, shapes, nid, slide, issue) ==
    IF col_num >= NumColumns(cfg) THEN [cfg |-> cfg, shapes |-> shapes, next |-> nid]
    ELSE LET col == cfg.columns[col_num + 1] IN
         IF ColumnAccepts(col, issue)
         THEN LET item == gen_roadmap_item_req(slide.google_slide_id, roadmap_box_width(cfg),
                                               LocX(cfg, col_num), LocY(cfg, col.count),
                                               issue.jira_link, issue.beta, nid)
                  cfg2 == [cfg EXCEPT !.columns[col_num + 1] = SetCount(col, col.count + 1)]
              IN  PlaceInColumns(col_num + 1, cfg2, Append(shapes, item.request_body),
                                 item.next, slide, issue)
         ELSE PlaceInColumns(col_num + 1, cfg, shapes, nid, slide, issue)

----------------------------------------------------------------------------
(* The run *)

JiraCfg == roadmap_slide_config.jira_roadmap_issues

Init ==
    /\ pc = "query"
    /\ error = "none"
    /\ raw_issues \in SeqsUpTo(RawPool, MaxIssues)
    /\ roadmap_slide_config \in
          {WithJira(l, m, b) : l \in LayoutConfigs, m \in Modes, b \in BOOLEAN}
    /\ norm_i = 0
    /\ roadmap_issues = <<>>
    /\ product_categories = <<>>
    /\ gen_i = 0
    /\ slide_reqs = <<>>
    /\ slides = <<>>
    /\ pop_s = 0
    /\ pop_j = 0
    /\ roadmap_shapes = <<>>
    /\ next_id = 1
    /\ execute_calls = <<>>
    /\ presentation = <<>>
    /\ summary = <<>>

Raise(e) == pc' = "failed" /\ error' = e

\* variant: an empty result is treated like any other
QueryFound_Always(ids) == TRUE

\* if roadmap_issue_ids: ... else: raise Exception("No jira issues were found ...")
QueryFound(ids) == ids # <<>>

SearchIssues ==
    /\ pc = "query"
    /\ IF QueryFound(raw_issues)
       THEN pc' = "normalize" /\ norm_i' = 1 /\ error' = error
       ELSE Raise("NotFound") /\ norm_i' = norm_i
    /\ UNCHANGED <<raw_issues, roadmap_slide_config, roadmap_issues, product_categories,
                   gen_i, slide_reqs, slides, pop_s, pop_j, roadmap_shapes, next_id,
                   execute_calls, presentation, summary>>

\* One iteration of the loop body of get_roadmap_issues: the exception it
\* raises ("none" if none), whether it appends, and what it appends.
NormalizeOne(jira, raw, id) ==
    IF ~ValidMode(jira.product_category_mode)
    THEN [error |-> "Configuration", emit |-> FALSE, issue |-> <<>>]
    ELSE LET cats == FilteredCategories(IssueCategories(jira.product_category_mode, raw),
                                        jira.product_category_prefix)
         IN  IF ~HasBetaAttr(raw)
             THEN [error |-> "AttributeError", emit |-> FALSE, issue |-> <<>>]
             ELSE IF jira.include_beta /\ IsBetaValue(raw)
             THEN [error |-> "none", emit |-> TRUE, issue |-> JiraRoadmapIssue(id, raw, cats, TRUE)]
             ELSE IF ~jira.include_beta /\ IsBetaValue(raw)
             THEN [error |-> "none", emit |-> FALSE, issue |-> <<>>]
             ELSE [error |-> "none", emit |-> TRUE, issue |-> JiraRoadmapIssue(id, raw, cats, FALSE)]

NormalizeIssue ==
    /\ pc = "normalize"
    /\ norm_i <= Len(raw_issues)
    /\ LET r == NormalizeOne(JiraCfg, raw_issues[norm_i], norm_i) IN
       IF r.error # "none"
       THEN Raise(r.error) /\ UNCHANGED <<norm_i, roadmap_issues>>
       ELSE /\ norm_i' = norm_i + 1
            /\ roadmap_issues' = IF r.emit THEN Append(roadmap_issues, r.issue) ELSE roadmap_issues
            /\ UNCHANGED <<pc, error>>
    /\ UNCHANGED <<raw_issues, roadmap_slide_config, product_categories,
                   gen_i, slide_reqs, slides, pop_s, pop_j, roadmap_shapes, next_id,
                   execute_calls, presentation, summary>>

\* variant: an empty normalized list is reported as "not found"
ReturnIssues_EmptyRaises ==
    /\ pc = "normalize"
    /\ norm_i > Len(raw_issues)
    /\ IF roadmap_issues = <<>>
       THEN Raise("NotFound")
       ELSE pc' = "extract" /\ error' = error
    /\ UNCHANGED <<raw_issues, roadmap_slide_config, norm_i, roadmap_issues,
                   product_categories, gen_i, slide_reqs, slides, pop_s, pop_j,
                   roadmap_shapes, next_id, execute_calls, presentation, summary>>

\* return roadmap_issues
ReturnIssues ==
    /\ pc = "normalize"
    /\ norm_i > Len(raw_issues)
    /\ pc' = "extract"
    /\ UNCHANGED <<error, raw_issues, roadmap_slide_config, norm_i, roadmap_issues,
                   product_categories, gen_i, slide_reqs, slides, pop_s, pop_j,
                   roadmap_shapes, next_id, execute_calls, presentation, summary>>

ExtractCategories ==
    /\ pc = "extract"
    /\ \E order \in get_unique_product_groups(roadmap_issues) : product_categories' = order
    /\ pc' = "gen_slides"
    /\ gen_i' = 1
    /\ UNCHANGED <<error, raw_issues, roadmap_slide_config, norm_i, roadmap_issues,
                   slide_reqs, slides, pop_s, pop_j, roadmap_shapes, next_id,
                   execute_calls, presentation, summary>>

\* one iteration of "for category in product_categories"
GenSlide ==
    /\ pc = "gen_slides"
    /\ gen_i <= Len(product_categories)
    /\ LET category == product_categories[gen_i]
           header   == gen_header_slide_req(category, next_id)
           roadmap  == gen_roadmap_slide_req(category, roadmap_slide_config, header.next)
       IN  /\ slide_reqs' = slide_reqs \o header.request_body \o roadmap.request_body
           /\ slides' = Append(slides, RoadmapSlide(category, roadmap.id))
           /\ next_id' = roadmap.next
    /\ gen_i' = gen_i + 1
    /\ UNCHANGED <<pc, error, raw_issues, roadmap_slide_config, norm_i, roadmap_issues,
                   product_categories, pop_s, pop_j, roadmap_shapes,
                   execute_calls, presentation, summary>>

\* updateSlides: one batchUpdate(...).execute(); it either applies the whole
\* body or raises.
Call(phase, body, ok) == [phase |-> phase, body |-> body, ok |-> ok]

\* variant: the exception of the first call is swallowed
ExecuteSkeleton_Swallowed ==
    /\ pc = "gen_slides"
    /\ gen_i > Len(product_categories)
    /\ \E ok \in BOOLEAN :
         /\ execute_calls' = Append(execute_calls, Call("skeleton", slide_reqs, ok))
         /\ presentation' = IF ok THEN presentation \o slide_reqs ELSE presentation
    /\ pc' = "populate"
    /\ pop_s' = 1
    /\ pop_j' = 0
    /\ UNCHANGED <<error, raw_issues, roadmap_slide_config, norm_i, roadmap_issues,
                   product_categories, gen_i, slide_reqs, slides, roadmap_shapes,
                   next_id, summary>>

ExecuteSkeleton ==
    /\ pc = "gen_slides"
    /\ gen_i > Len(product_categories)
    /\ \E ok \in BOOLEAN :
         /\ execute_calls' = Append(execute_calls, Call("skeleton", slide_reqs, ok))
         /\ IF ok
            THEN /\ presentation' = presentation \o slide_reqs
                 /\ pc' = "populate"
                 /\ pop_s' = 1
                 /\ pop_j' = 0
                 /\ error' = error
            ELSE /\ Raise("RemoteExecution")
                 /\ UNCHANGED <<presentation, pop_s, pop_j>>
    /\ UNCHANGED <<raw_issues, roadmap_slide_config, norm_i, roadmap_issues,
                   product_categories, gen_i, slide_reqs, slides, roadmap_shapes,
                   next_id, summary>>

\* "for slide in roadmap_slides:" entered: the counters are reset
StartSlide ==
    /\ pc = "populate"
    /\ pop_s <= Len(slides)
    /\ pop_j = 0
    /\ roadmap_slide_config' =
          [roadmap_slide_config EXCEPT !.columns = ResetCounts(@)]
    /\ pop_j' = 1
    /\ UNCHANGED <<pc, error, raw_issues, norm_i, roadmap_issues, product_categories,
                   gen_i, slide_reqs, slides, pop_s, roadmap_shapes, next_id,
                   execute_calls, presentation, summary>>

\* one iteration of "for issue in jira_roadmap_issues"
PlaceIssue ==
    /\ pc = "populate"
    /\ pop_j >= 1
    /\ pop_j <= Len(roadmap_issues)
    /\ LET slide == slides[pop_s]
           issue == roadmap_issues[pop_j]
           r     == PlaceInColumns(0, roadmap_slide_config, roadmap_shapes, next_id, slide, issue)
       IN  IF SlideMatches(slide, issue)
           THEN /\ roadmap_slide_config' = r.cfg
                /\ roadmap_shapes' = r.shapes
                /\ next_id' = r.next
           ELSE UNCHANGED <<roadmap_slide_config, roadmap_shapes, next_id>>
    /\ pop_j' = pop_j + 1
    /\ UNCHANGED <<pc, error, raw_issues, norm_i, roadmap_issues, product_categories,
                   gen_i, slide_reqs, slides, pop_s, execute_calls, presentation, summary>>

\* the issue loop of one slide is exhausted
NextSlide ==
    /\ pc = "populate"
    /\ pop_j >= 1
    /\ pop_j > Len(roadmap_issues)
    /\ pop_s' = pop_s + 1
    /\ pop_j' = 0
    /\ UNCHANGED <<pc, error, raw_issues, roadmap_slide_config, norm_i, roadmap_issues,
                   product_categories, gen_i, slide_reqs, slides, roadmap_shapes, next_id,
                   execute_calls, presentation, summary>>

\* variant: a failed second call is repeated
ExecutePopulate_Retried ==
    /\ pc = "populate"
    /\ pop_s > Len(slides)
    /\ pop_j = 0
    /\ Len(execute_calls) < 4
    /\ \E ok \in BOOLEAN :
         /\ execute_calls' = Append(execute_calls, Call("populate", roadmap_shapes, ok))
         /\ presentation' = IF ok THEN presentation \o Flatten(roadmap_shapes) ELSE presentation
         /\ pc' = IF ok THEN "done" ELSE pc
    /\ summary' = <<>>
    /\ UNCHANGED <<error, raw_issues, roadmap_slide_config, norm_i, roadmap_issues,
                   product_categories, gen_i, slide_reqs, slides, pop_s, pop_j,
                   roadmap_shapes, next_id>>

\* return updateSlides(... body = {'requests': roadmap_shapes}); afterwards
\* generate_roadmap_deck falls off its end and returns None.
ExecutePopulate ==
    /\ pc = "populate"
    /\ pop_s > Len(slides)
    /\ pop_j = 0
    /\ \E ok \in BOOLEAN :
         /\ execute_calls' = Append(execute_calls, Call("populate", roadmap_shapes, ok))
         /\ IF ok
            THEN /\ presentation' = presentation \o Flatten(roadmap_shapes)
                 /\ pc' = "done"
                 /\ error' = error
            ELSE /\ Raise("RemoteExecution")
                 /\ UNCHANGED presentation
    /\ summary' = <<>>
    /\ UNCHANGED <<raw_issues, roadmap_slide_config, norm_i, roadmap_issues,
                   product_categories, gen_i, slide_reqs, slides, pop_s, pop_j,
                   roadmap_shapes, next_id>>

Next ==
    \/ SearchIssues
    \/ NormalizeIssue
    \/ ReturnIssues
    \/ ExtractCategories
    \/ GenSlide
    \/ ExecuteSkeleton
    \/ StartSlide
    \/ PlaceIssue
    \/ NextSlide
    \/ ExecutePopulate

Spec == Init /\ [][Next]_vars

----------------------------------------------------------------------------
(* Vocabulary of the properties *)

Mode == JiraCfg.product_category_mode
IncludeBeta == JiraCfg.include_beta

RecognizedMode == Mode \in {"components", "labels"}

IssueSet == SeqToSet(roadmap_issues)
SlideSet == SeqToSet(slides)

\* the item boxes accumulated so far, one record per group, in emission order
BoxOfGroup(g) ==
    LET create == CHOOSE o \in SeqToSet(g) : o.kind = "createShape" /\ o.role = "roadmap_item"
        props  == CHOOSE o \in SeqToSet(g) : o.kind = "updateShapeProperties" /\ o.role = "roadmap_item"
    IN  [id |-> create.objectId, page |-> create.pageObjectId, link |-> props.link,
         x |-> create.x, y |-> create.y, w |-> create.w]

Boxes == [k \in DOMAIN roadmap_shapes |-> BoxOfGroup(roadmap_shapes[k])]
BoxSet == SeqToSet(Boxes)

Carries(issue, slide) ==
    \E n \in DOMAIN issue.product_categories : issue.product_categories[n] = slide.product_category

AcceptingColumns(issue) ==
    {c \in 0..(NumColumns(roadmap_slide_config) - 1) :
        issue.jira_quarter \in roadmap_slide_config.columns[c + 1].jira_statuses}

FirstAccepting(issue) ==
    CHOOSE c \in AcceptingColumns(issue) : \A d \in AcceptingColumns(issue) : c <= d

\* every slide of the run has been through the issue loop
PopulationBuilt == pc \in {"populate", "done", "failed"} /\ pop_s > Len(slides)

BoxesFor(slide, issue) ==
    {k \in DOMAIN Boxes : Boxes[k].page = slide.google_slide_id /\ Boxes[k].link = issue.jira_link}

\* indices (in emission order) of the boxes of one column of one slide
ColumnBoxes(slide, col_num) ==
    {k \in DOMAIN Boxes : /\ Boxes[k].page = slide.google_slide_id
                          /\ Boxes[k].x = LocX(roadmap_slide_config, col_num)}

RankIn(S, k) == Cardinality({m \in S : m < k})

----------------------------------------------------------------------------
(* C1: once the population phase has built its batch, every issue that     *)
(* carries a slide's category and whose time bucket some column accepts    *)
(* has exactly one item box on that slide, and the box sits in the first   *)
(* accepting column -- also when two columns accept the same bucket.       *)
C1_OneBoxInFirstColumn ==
    PopulationBuilt =>
        \A slide \in SlideSet : \A issue \in IssueSet :
            (Carries(issue, slide) /\ AcceptingColumns(issue) # {}) =>
                /\ Cardinality(BoxesFor(slide, issue)) = 1
                /\ \A k \in BoxesFor(slide, issue) :
                      Boxes[k].x = LocX(roadmap_slide_config, FirstAccepting(issue))

(* C2: on every slide and in every column the k-th box (k = 0, 1, ...), in *)
(* issue-list order, is at y = baseY + k * (height + y_padding) with       *)
(* baseY = left_header.locy + left_header.height; the count restarts at 0  *)
(* on every slide.                                                         *)
C2_VerticalStacking ==
    \A slide \in SlideSet : \A c \in 0..(NumColumns(roadmap_slide_config) - 1) :
        LET col == ColumnBoxes(slide, c) IN
        \A k \in col :
            /\ Boxes[k].y = (roadmap_slide_config.left_header.locy
                             + roadmap_slide_config.left_header.height)
                            + RankIn(col, k) * (roadmap_slide_config.roadmap_box.height
                                                + roadmap_slide_config.roadmap_box.y_padding)
            /\ \A m \in col : m < k => Boxes[m].link < Boxes[k].link

\* a second-or-later slide has a box at rank 0 and some column holds 3 boxes
C2_Witness ==
    /\ Len(slides) >= 2
    /\ \E c \in 0..(NumColumns(roadmap_slide_config) - 1) :
          /\ ColumnBoxes(slides[2], c) # {}
          /\ Cardinality(ColumnBoxes(slides[1], c)) >= 1
    /\ \E slide \in SlideSet : \E c \in 0..(NumColumns(roadmap_slide_config) - 1) :
          Cardinality(ColumnBoxes(slide, c)) >= 3

(* C3: every item box on the page of slide S stems from an issue that      *)
(* carries S's category (and an accepted time bucket); issues with no      *)
(* category or with a bucket no column accepts get no box, and every       *)
(* failure of the run has its own cause elsewhere (empty query, bad mode,  *)
(* missing attribute, failed execute call).                                *)
C3_BoxesOnlyForMatchingIssues ==
    /\ \A b \in BoxSet :
          \E slide \in SlideSet : \E issue \in IssueSet :
              /\ b.page = slide.google_slide_id
              /\ b.link = issue.jira_link
              /\ Carries(issue, slide)
              /\ issue.product_categories # <<>>
              /\ AcceptingColumns(issue) # {}
    /\ pc = "failed" =>
          \/ error = "NotFound" /\ raw_issues = <<>>
          \/ error = "Configuration" /\ ~RecognizedMode
          \/ error = "AttributeError" /\ raw_issues[norm_i].beta_attr = "<missing>"
          \/ error = "RemoteExecution" /\ ~execute_calls[Len(execute_calls)].ok

\* a completed run that normalized a zero-category issue and an issue of an
\* unaccepted bucket, and emitted a box for a third one
C3_Witness ==
    /\ pc = "done"
    /\ \E issue \in IssueSet : issue.product_categories = <<>> /\ AcceptingColumns(issue) # {}
    /\ \E issue \in IssueSet : issue.product_categories # <<>> /\ AcceptingColumns(issue) = {}
    /\ BoxSet # {}

(* C4: for every raw issue the normalizer has handled (mode valid): value  *)
(* "Beta" and include_beta false -> absent; "Beta" and include_beta true   *)
(* -> present with beta = TRUE; attribute absent, empty or any other value *)
(* -> present with beta = FALSE, and normalization does not fail.          *)
Handled(i) == i < norm_i \/ (i = norm_i /\ pc = "failed" /\ i <= Len(raw_issues))

Emitted(i, flag) ==
    /\ \E issue \in IssueSet : issue.jira_id = i /\ issue.beta = flag
    /\ \A issue \in IssueSet : issue.jira_id = i => issue.beta = flag

C4_BetaResolution ==
    RecognizedMode =>
        \A i \in DOMAIN raw_issues : Handled(i) =>
            IF raw_issues[i].beta_attr = "Beta"
            THEN IF IncludeBeta THEN Emitted(i, TRUE)
                 ELSE \A issue \in IssueSet : issue.jira_id # i
            ELSE Emitted(i, FALSE)

(* C5: an empty query result ends the run with the not-found error of the  *)
(* normalizer: nothing is built, no execute call is made, nothing is       *)
(* returned.                                                               *)
C5_EmptyQueryFails ==
    raw_issues = <<>> =>
        /\ pc \in {"query", "failed"}
        /\ pc = "failed" => error = "NotFound"
        /\ slide_reqs = <<>> /\ roadmap_shapes = <<>> /\ slides = <<>>
        /\ execute_calls = <<>> /\ presentation = <<>>
        /\ summary = <<>>

C5_Witness == raw_issues = <<>> /\ pc = "failed" /\ error = "NotFound"

(* C6 (as stated): whatever the query returns, a run whose category mode   *)
(* is neither "components" nor "labels" fails with the configuration       *)
(* error.                                                                  *)
C6_AlwaysConfigurationError ==
    (~RecognizedMode /\ pc = "failed") => error = "Configuration"

(* C6 (amended): a run with an unrecognized mode never gets past the       *)
(* normalizer: it fails with the configuration error on the first record   *)
(* when the query returned records and with the not-found error when it    *)
(* returned none, before any geometry is computed or execute call made.    *)
C6_InvalidModeFailsEarly ==
    ~RecognizedMode =>
        /\ pc \in {"query", "normalize", "failed"}
        /\ pc = "failed" =>
              error = (IF raw_issues = <<>> THEN "NotFound" ELSE "Configuration")
        /\ pc = "normalize" => norm_i = 1 /\ raw_issues # <<>>
        /\ roadmap_issues = <<>> /\ product_categories = <<>>
        /\ slide_reqs = <<>> /\ slides = <<>> /\ roadmap_shapes = <<>> /\ next_id = 1
        /\ execute_calls = <<>> /\ presentation = <<>>

C6_Witness ==
    ~RecognizedMode /\ Len(raw_issues) >= 2 /\ pc = "failed" /\ error = "Configuration"

(* C7: the two phases are sequential: at most two execute calls, the first *)
(* for the skeleton batch and the second for the population batch; the     *)
(* population phase is entered only after a successful skeleton call with  *)
(* every slide id recorded; a completed run made exactly two calls.        *)
PopulationStarted == pop_s >= 1 \/ roadmap_shapes # <<>>

C7_PhasesSequential ==
    /\ Len(execute_calls) <= 2
    /\ Len(execute_calls) >= 1 =>
          execute_calls[1].phase = "skeleton" /\ execute_calls[1].body = slide_reqs
    /\ Len(execute_calls) = 2 =>
          execute_calls[2].phase = "populate" /\ execute_calls[1].ok
    /\ PopulationStarted =>
          /\ Len(execute_calls) >= 1 /\ execute_calls[1].ok
          /\ Len(slides) = Len(product_categories)
          /\ \A i \in DOMAIN slides :
                /\ slides[i].product_category = product_categories[i]
                /\ \E k \in DOMAIN presentation :
                      /\ presentation[k].kind = "createSlide"
                      /\ presentation[k].objectId = slides[i].google_slide_id
    /\ pc = "populate" => Len(execute_calls) = 1
    /\ pc = "done" =>
          Len(execute_calls) = 2 /\ execute_calls[1].ok /\ execute_calls[2].ok

C7_Witness ==
    pc = "done" /\ Len(execute_calls) = 2 /\ Len(slides) = 2 /\ roadmap_shapes # <<>>

(* C8: a failed execute call ends the run and is not repeated: after a     *)
(* failed skeleton call nothing of the population phase happens; after a   *)
(* failed population call the slides of the skeleton call are still in     *)
(* the presentation; no summary is returned in either case.                *)
C8_ExecuteFailureIsFatal ==
    /\ \A i \in DOMAIN execute_calls :
          ~execute_calls[i].ok =>
              /\ i = Len(execute_calls)
              /\ pc = "failed" /\ error = "RemoteExecution"
              /\ summary = <<>>
    /\ (Len(execute_calls) >= 1 /\ ~execute_calls[1].ok) =>
          ~PopulationStarted /\ presentation = <<>>
    /\ (Len(execute_calls) = 2 /\ ~execute_calls[2].ok) =>
          presentation = execute_calls[1].body

C8_Witness ==
    /\ Len(execute_calls) = 2 /\ ~execute_calls[2].ok
    /\ presentation # <<>> /\ roadmap_shapes # <<>>

\* --- skeleton batch vocabulary ---
DistinctCategories == UNION {SeqToSet(issue.product_categories) : issue \in IssueSet}

SkeletonBuilt ==
    (pc = "gen_slides" /\ gen_i > Len(product_categories)) \/ Len(execute_calls) >= 1

\* the title text inserted into the placeholder of the slide created by reqs[i]
TitleOf(reqs, i) ==
    LET k == CHOOSE k \in DOMAIN reqs :
                 reqs[k].kind = "insertText" /\ reqs[k].objectId = reqs[i].placeholderId
    IN  reqs[k].text

SlideCreations(reqs, role, category) ==
    {i \in DOMAIN reqs : /\ reqs[i].kind = "createSlide"
                         /\ reqs[i].role = role
                         /\ TitleOf(reqs, i) = category}

OnePairPerCategory ==
    /\ \A c \in DistinctCategories :
          /\ Cardinality(SlideCreations(slide_reqs, "header_slide", c)) = 1
          /\ Cardinality(SlideCreations(slide_reqs, "roadmap_slide", c)) = 1
          /\ \A h \in SlideCreations(slide_reqs, "header_slide", c) :
             \A r \in SlideCreations(slide_reqs, "roadmap_slide", c) :
                /\ h < r
                /\ Cardinality({i \in DOMAIN slides : slides[i].product_category = c}) = 1
                /\ \A i \in DOMAIN slides :
                      slides[i].product_category = c =>
                          slides[i].google_slide_id = slide_reqs[r].objectId
    /\ Cardinality({i \in DOMAIN slide_reqs : slide_reqs[i].kind = "createSlide"})
          = 2 * Cardinality(DistinctCategories)
    /\ Len(slides) = Cardinality(DistinctCategories)

SubmittedOps ==
    (IF Len(execute_calls) >= 1 THEN execute_calls[1].body ELSE <<>>)
    \o (IF Len(execute_calls) >= 2 THEN Flatten(execute_calls[2].body) ELSE <<>>)

CreationKinds == {"createSlide", "createShape", "createLine"}

CreatedBy(op) ==
    IF op.kind = "createSlide" THEN {op.objectId, op.placeholderId}
    ELSE IF op.kind \in CreationKinds THEN {op.objectId}
    ELSE {}

(* C10: in submission order every style, text or paragraph operation comes *)
(* after the creation of the element it names, every shape or line         *)
(* creation comes after the creation of its page, and the page of every    *)
(* item box is a skeleton slide created by the first call.                 *)
C10_CreationPrecedesUse ==
    LET ops == SubmittedOps IN
    \A i \in DOMAIN ops :
        /\ ops[i].kind \notin CreationKinds =>
              \E j \in 1..(i - 1) : ops[i].objectId \in CreatedBy(ops[j])
        /\ ops[i].kind \in {"createShape", "createLine"} =>
              \E j \in 1..(i - 1) :
                  ops[j].kind = "createSlide" /\ ops[j].objectId = ops[i].pageObjectId
        /\ (ops[i].kind = "createShape" /\ ops[i].role \in {"roadmap_item", "beta_flag"}) =>
              \E j \in DOMAIN execute_calls[1].body :
                  /\ execute_calls[1].body[j].kind = "createSlide"
                  /\ execute_calls[1].body[j].role = "roadmap_slide"
                  /\ execute_calls[1].body[j].objectId = ops[i].pageObjectId

\* both batches submitted, the second with a plain box and a box with badge
C10_Witness ==
    /\ Len(execute_calls) = 2
    /\ \E g \in SeqToSet(roadmap_shapes) : Len(g) = 6
    /\ \E g \in SeqToSet(roadmap_shapes) : Len(g) = 11

\* --- batch shape vocabulary ---
OperationKinds ==
    {"createSlide", "createShape", "createLine", "insertText", "updateShapeProperties",
     "updateLineProperties", "updateTextStyle", "updateParagraphStyle"}

\* the item-box operations of all placements, in one sequence
AllItemOperations == Flatten(roadmap_shapes)

(* C11: the requests of each execute call are a flat sequence of single    *)
(* drawing operations: every element of the skeleton batch is one          *)
(* operation, and the population batch is the sequence of all item-box     *)
(* operations themselves, not a sequence of per-box groups.                *)
C11_FlatBatches ==
    /\ Len(execute_calls) >= 1 =>
          \A i \in DOMAIN execute_calls[1].body :
              execute_calls[1].body[i].kind \in OperationKinds
    /\ Len(execute_calls) >= 2 =>
          /\ Len(execute_calls[2].body) = Len(AllItemOperations)
          /\ execute_calls[2].body = AllItemOperations

(* C12: the caller's slide configuration is read-only: no step of the run  *)
(* changes it, so every column definition keeps exactly the keys and       *)
(* values it had before the run (no counter is stored in it).              *)
C12_ConfigReadOnly == [][roadmap_slide_config' = roadmap_slide_config]_vars

\* --- normalizer vocabulary ---
SelectedList(raw) ==
    IF Mode = "components" THEN raw.components
    ELSE IF Mode = "labels" THEN raw.labels
    ELSE <<>>

HasPrefix(name, prefix) ==
    /\ Len(prefix) <= Len(name)
    /\ \A n \in 1..Len(prefix) : name[n] = prefix[n]

WithoutPrefix(name, prefix) == [n \in 1..(Len(name) - Len(prefix)) |-> name[n + Len(prefix)]]

\* the prefixed entries of a list, prefix removed, original order kept
ExpectedCategories(list, prefix) ==
    LET kept == SelectSeq(list, LAMBDA name : HasPrefix(name, prefix))
    IN  [n \in DOMAIN kept |-> WithoutPrefix(kept[n], prefix)]

(* C13: the categories of every normalized issue are exactly the entries   *)
(* of its component list (mode "components") or label list (mode "labels") *)
(* that start with the prefix, with the prefix removed and in the original *)
(* order; other entries and the other list contribute nothing.             *)
C13_PrefixedCategories ==
    \A issue \in IssueSet :
        issue.product_categories =
            ExpectedCategories(SelectedList(raw_issues[issue.jira_id]),
                               JiraCfg.product_category_prefix)

\* a normalized issue whose selected list mixes prefixed and unprefixed
\* entries and whose other list holds a prefixed entry it must not pick up
C13_Witness ==
    \E issue \in IssueSet :
        LET raw   == raw_issues[issue.jira_id]
            sel   == SelectedList(raw)
            other == IF Mode = "components" THEN raw.labels ELSE raw.components
        IN  /\ \E n \in DOMAIN sel : HasPrefix(sel[n], Prefix)
            /\ \E n \in DOMAIN sel : ~HasPrefix(sel[n], Prefix)
            /\ \E n \in DOMAIN other :
                  /\ HasPrefix(other[n], Prefix)
                  /\ \A m \in DOMAIN sel : sel[m] # other[n]

\* --- geometry vocabulary (fractions have positive denominators) ---
FracEq(a, b)  == a.num * b.den = b.num * a.den
FracLeq(a, b) == a.num * b.den <= b.num * a.den
FracAdd(a, b) == [num |-> a.num * b.den + b.num * a.den, den |-> a.den * b.den]
FracOfInt(n)  == [num |-> n, den |-> 1]

ColumnCount   == Len(roadmap_slide_config.columns)
TimelineWidth == roadmap_slide_config.timeline_arrow.width
XPadding      == roadmap_slide_config.roadmap_box.x_padding
YPadding      == roadmap_slide_config.roadmap_box.y_padding
BoxHeight     == roadmap_slide_config.roadmap_box.height
ArrowStart    == roadmap_slide_config.left_header.locx + roadmap_slide_config.left_header.width

\* (timelineWidth - xPadding * (numColumns + 1)) / numColumns
ExpectedWidth == [num |-> TimelineWidth - XPadding * (ColumnCount + 1), den |-> ColumnCount]

\* baseX + i * (boxWidth + xPadding), baseX = arrowStart + xPadding
ExpectedX(i) ==
    FracAdd(FracOfInt(ArrowStart + XPadding + i * XPadding),
            [num |-> i * ExpectedWidth.num, den |-> ExpectedWidth.den])

(* C14: every item box has width (timelineWidth - xPadding*(n+1)) / n, the *)
(* same on all slides and columns (175 for n = 4, 800, 20); a box placed   *)
(* in column i is at x = baseX + i*(boxWidth + xPadding), whatever the     *)
(* number of boxes the column already holds.                               *)
C14_BoxWidthAndX ==
    /\ \A b \in BoxSet :
          /\ FracEq(b.w, ExpectedWidth)
          /\ (ColumnCount = 4 /\ TimelineWidth = 800 /\ XPadding = 20) =>
                b.w.num = 175 * b.w.den
    /\ \A slide \in SlideSet : \A issue \in IssueSet :
          /\ \A k \in BoxesFor(slide, issue) :
                \E i \in AcceptingColumns(issue) : FracEq(Boxes[k].x, ExpectedX(i))
          /\ (Carries(issue, slide) /\ pop_s > Len(slides)) =>
                \A i \in AcceptingColumns(issue) :
                    \E k \in BoxesFor(slide, issue) : FracEq(Boxes[k].x, ExpectedX(i))

\* the four-column layout with a box of width 175 that is the second box of
\* a column other than the first
C14_Witness ==
    /\ ColumnCount = 4 /\ TimelineWidth = 800 /\ XPadding = 20
    /\ \E k, m \in DOMAIN Boxes :
          /\ m < k
          /\ Boxes[k].page = Boxes[m].page
          /\ Boxes[k].x = Boxes[m].x
          /\ FracEq(Boxes[k].x, ExpectedX(1))
          /\ Boxes[k].w.num = 175 * Boxes[k].w.den

\* --- runs without any category ---
Normalized == pc \in {"extract", "gen_slides", "populate", "done"} \/ execute_calls # <<>>

NoCategoryRun == raw_issues # <<>> /\ Normalized /\ DistinctCategories = {}

EmptyBatches ==
    /\ slide_reqs = <<>> /\ slides = <<>> /\ roadmap_shapes = <<>>
    /\ \A i \in DOMAIN execute_calls : execute_calls[i].body = <<>>
    /\ presentation = <<>>

PositiveLayout ==
    /\ BoxHeight > 0 /\ ExpectedWidth.num > 0 /\ XPadding >= 0 /\ YPadding >= 0

RightEdge(b) == FracAdd(b.x, b.w)

C16_BoxesDisjointAndInside ==
    PositiveLayout =>
        /\ \A k, m \in DOMAIN Boxes :
              (k # m /\ Boxes[k].page = Boxes[m].page) =>
                  IF FracEq(Boxes[k].x, Boxes[m].x)
                  THEN \/ Boxes[k].y + BoxHeight <= Boxes[m].y
                       \/ Boxes[m].y + BoxHeight <= Boxes[k].y
                  ELSE \/ FracLeq(RightEdge(Boxes[k]), Boxes[m].x)
                       \/ FracLeq(RightEdge(Boxes[m]), Boxes[k].x)
        /\ \A b \in BoxSet :
              /\ FracLeq(FracOfInt(ArrowStart + XPadding), b.x)
              /\ FracLeq(RightEdge(b), FracOfInt(ArrowStart + TimelineWidth - XPadding))

\* one slide with two boxes stacked in a column and a third box in another
\* column, in a layout without vertical padding
C16_Witness ==
    /\ PositiveLayout
    /\ YPadding = 0
    /\ \E k, m, n \in DOMAIN Boxes :
          /\ k # m
          /\ Boxes[k].page = Boxes[m].page /\ Boxes[k].page = Boxes[n].page
          /\ Boxes[k].x = Boxes[m].x
          /\ Boxes[n].x # Boxes[k].x

====
